---- MODULE Spec2Model ----
(***************************************************************************)
(* Model of lib/express-request-logger.js: the per-request log record, its *)
(* delayed pending write, the update/ignore hooks, the completion handler, *)
(* the id acquisition (redis INCR) joined with the completion event by     *)
(* async.parallel, and the redis keys the middleware writes and deletes.   *)
(*                                                                         *)
(* Time is counted in whole seconds.  A caller-supplied options.mustLog is *)
(* arbitrary code and is not modelled: the predicate is the default one    *)
(* (options.logTypes).  info.error is modelled by its truthiness.  SETEX   *)
(* and DEL are applied to the store in the order they are issued on the    *)
(* single connection; their error callbacks only print (lines 132-136,     *)
(* 157-161) and change no state of the program.                            *)
(***************************************************************************)
EXTENDS Integers, Sequences, FiniteSets, TLC

\* ------------------------------------------------------------------ bounds
\* The requests one middleware instance can handle, and the one request
\* that arrives under Spec (the per-request lifecycle in full).
Reqs == {1, 2}
Solo == {1}
\* The clock stops at MaxTime seconds.
MaxTime == 5
\* update() is only called while the request has issued fewer commands.
MaxCmds == 5

\* --------------------------------------------------------------- constants
\* setTimeout(..., 4000): the delayed pending write, in seconds.
WriteDelay == 4
\* var defaultSlowTime = 1.0
defaultSlowTime == 1
\* {id: null, ...}: "" + null is "null" in a key.
NullId == 0
\* res.rLog.id = id with id undefined (the INCR failed).
UndefinedId == -1
\* info.duration before the completion handler has set it (undefined).
NoDuration == -1
\* record.type / currentType before they are set (undefined / null).
NoType == "none"
\* res.rLog after `delete res.rLog`.
NoRecord == [deleted |-> TRUE]

\* var defaultTtls
defaultTtls == [p |-> 10 * 24 * 3600, c |-> 24 * 3600, s |-> 10 * 24 * 3600, e |-> 10 * 24 * 3600]

Types == {"p", "c", "s", "e"}
Methods == {"GET", "OPTIONS", "HEAD"}

\* The options the middleware is configured with: slowTime absent (the
\* default applies), 0 (no slow logging) or 2; logTypes absent or a list.
OptionChoices ==
    { [hasSlowTime |-> FALSE, slowTime |-> 0, hasLogTypes |-> FALSE, logTypes |-> {}],
      [hasSlowTime |-> TRUE,  slowTime |-> 0, hasLogTypes |-> FALSE, logTypes |-> {}],
      [hasSlowTime |-> TRUE,  slowTime |-> 2, hasLogTypes |-> TRUE,  logTypes |-> {"p", "e"}],
      [hasSlowTime |-> FALSE, slowTime |-> 0, hasLogTypes |-> TRUE,  logTypes |-> {"c", "s", "e"}] }

VARIABLES
    options,         \* the options passed to configure
    now,             \* the clock, in seconds
    connectionLost,  \* var connectionLost
    cooldown,        \* number of scheduled setTimeout(connectionLost = false, 5 * 60000)
    counter,         \* the redis counter <prefix>id
    keys,            \* the record keys present in redis
    req              \* per request: the closure of the middleware function

vars == <<options, now, connectionLost, cooldown, counter, keys, req>>

\* ----------------------------------------------------------- pure helpers
\* prefix + type + ":" + id
Key(type, id) == <<type, id>>
\* prefix + "id"
IdKey == <<"id">>

\* delta.toPrecision(3), read back as a number by the comparison in
\* setLogType: three significant digits of a whole number of seconds.
RECURSIVE Pow10(_)
Pow10(n) == IF n = 0 THEN 1 ELSE 10 * Pow10(n - 1)
RECURSIVE Digits(_)
Digits(d) == IF d < 10 THEN 1 ELSE 1 + Digits(d \div 10)
toPrecision3(d) ==
    IF Digits(d) <= 3 THEN d
    ELSE LET unit == Pow10(Digits(d) - 3)
         IN  ((d + unit \div 2) \div unit) * unit

\* The default mustLog (lines 106-111).
mustLog(record) ==
    IF options.hasLogTypes THEN record.type \in options.logTypes ELSE TRUE

\* setLogType that tests the duration before the error.
setLogTypeSlowFirst(record) ==
    LET slowTime == IF options.hasSlowTime THEN options.slowTime ELSE defaultSlowTime
        type == IF slowTime # 0 /\ record.info.duration # NoDuration
                   /\ record.info.duration > slowTime THEN "s"
                ELSE IF record.info.error THEN "e"
                ELSE "c"
    IN  [record EXCEPT !.type = type]

\* setLogType (lines 271-286), on the record.
setLogTypeRec(record) ==
    LET slowTime == IF options.hasSlowTime THEN options.slowTime ELSE defaultSlowTime
        type == IF record.info.error THEN "e"
                ELSE IF slowTime # 0 /\ record.info.duration # NoDuration
                        /\ record.info.duration > slowTime THEN "s"
                ELSE "c"
    IN  [record EXCEPT !.type = type]

setLogType(q) == [q EXCEPT !.rLog = setLogTypeRec(q.rLog)]

\* (options.ttl && options.ttl[type]) || defaultTtls[type], options.ttl absent
Expire(type) == defaultTtls[type]

\* JSON.stringify(record.info): what the written value carries.
Stringify(info) == [duration |-> info.duration, status |-> info.status, error |-> info.error]
NoStr == [duration |-> NoDuration, status |-> FALSE, error |-> FALSE]

\* processLog that does not ask mustLog.
processLogUnfiltered(q, by) ==
    LET record == q.rLog IN
    IF record = NoRecord THEN q
    ELSE LET type == record.type
             del == IF q.currentType # NoType /\ q.currentType # type
                    THEN << [op |-> "del", key |-> Key(q.currentType, record.id),
                             ttl |-> 0, str |-> NoStr, by |-> by] >>
                    ELSE << >>
             set == [op |-> "setex", key |-> Key(type, record.id),
                     ttl |-> Expire(type), str |-> Stringify(record.info), by |-> by]
         IN  [q EXCEPT !.cmds = @ \o del \o <<set>>, !.currentType = type]

\* processLog (lines 121-164); `by` names the call site.
processLog(q, by) ==
    LET record == q.rLog IN
    IF record = NoRecord THEN q
    ELSE IF ~mustLog(record) THEN q
    ELSE LET type == record.type
             del == IF q.currentType # NoType /\ q.currentType # type
                    THEN << [op |-> "del", key |-> Key(q.currentType, record.id),
                             ttl |-> 0, str |-> NoStr, by |-> by] >>
                    ELSE << >>
             set == [op |-> "setex", key |-> Key(type, record.id),
                     ttl |-> Expire(type), str |-> Stringify(record.info), by |-> by]
         IN  [q EXCEPT !.cmds = @ \o del \o <<set>>, !.currentType = type]

\* ignore() that cancels the timer but keeps the record.
ignoreKeepsRecord(q) ==
    [q EXCEPT !.timer = IF q.rLog.writeTimeout /\ @ = "armed" THEN "cleared" ELSE @,
              !.rLog.writeTimeout = FALSE,
              !.ignored = TRUE]

\* ignore() that also deletes the key written last.
ignoreDeletesKey(q) ==
    [q EXCEPT !.timer = IF q.rLog.writeTimeout /\ @ = "armed" THEN "cleared" ELSE @,
              !.rLog = NoRecord,
              !.ignored = TRUE,
              !.cmds = IF q.currentType # NoType
                       THEN Append(@, [op |-> "del", key |-> Key(q.currentType, q.rLog.id),
                                       ttl |-> 0, str |-> NoStr, by |-> "ignore"])
                       ELSE @]

\* res.rLog.ignore (lines 200-205)
ignore(q) ==
    [q EXCEPT !.timer = IF q.rLog.writeTimeout /\ @ = "armed" THEN "cleared" ELSE @,
              !.rLog = NoRecord,
              !.ignored = TRUE]

\* update() that rewrites the record under the type it has.
updateKeepsType(q) ==
    IF q.rLog # NoRecord /\ ~q.rLog.writeTimeout
    THEN processLog(q, "update")
    ELSE q

\* update() that does not look at the scheduled write.
updateIgnoresTimeout(q) ==
    IF q.rLog # NoRecord
    THEN processLog(setLogType(q), "update")
    ELSE q

\* res.rLog.update (lines 191-197)
update(q) ==
    IF q.rLog # NoRecord /\ ~q.rLog.writeTimeout
    THEN processLog(setLogType(q), "update")
    ELSE q

\* The callback of async.parallel (lines 262-266).
parallelCallback(q, err) == IF ~err THEN processLog(q, "parallel") ELSE q

\* A task's cb of async.parallel: the final callback runs once, at the first
\* error or when both tasks are done.
taskCb(q, err) ==
    IF err
    THEN IF q.parDone THEN q ELSE parallelCallback([q EXCEPT !.parDone = TRUE], TRUE)
    ELSE LET c == q.completed + 1 IN
         IF c = 2 /\ ~q.parDone
         THEN parallelCallback([q EXCEPT !.completed = c, !.parDone = TRUE], FALSE)
         ELSE [q EXCEPT !.completed = c]

\* The timer callback (lines 181-187).
writeTimeoutFn(q) ==
    LET q1 == IF q.rLog # NoRecord
              THEN processLog([q EXCEPT !.rLog.type = "p"], "timeout")
              ELSE q
    IN  IF q1.rLog = NoRecord
        THEN [q1 EXCEPT !.timer = "fired", !.threw = TRUE, !.typeError = TRUE]
        ELSE [q1 EXCEPT !.timer = "fired", !.rLog.writeTimeout = FALSE]

\* A 'finish' listener that leaves the delayed write scheduled.
finishKeepsTimer(q, t) ==
    LET q1 == IF q.rLog # NoRecord
              THEN LET a == setLogType(q)
                   IN  IF ~mustLog(a.rLog) THEN ignore(a) ELSE a
              ELSE q
        q2 == IF q1.rLog # NoRecord
              THEN [q1 EXCEPT
                      !.rLog.info.duration = toPrecision3(t - q1.rLog.info.time),
                      !.rLog.info.status = TRUE]
              ELSE q1
    IN  taskCb([q2 EXCEPT !.finished = TRUE,
                          !.errAtFinish = (q.rLog # NoRecord /\ q.rLog.info.error),
                          !.timerAtFinish = q.timer,
                          !.finishTime = t], FALSE)

\* The 'finish' listener (lines 211-235).
finish(q, t) ==
    LET q1 == IF q.rLog # NoRecord
              THEN LET a == setLogType(q)
                   IN  IF ~mustLog(a.rLog) THEN ignore(a) ELSE a
              ELSE q
        q2 == IF q1.rLog # NoRecord
              THEN [q1 EXCEPT
                      !.timer = IF q1.rLog.writeTimeout /\ @ = "armed" THEN "cleared" ELSE @,
                      !.rLog.writeTimeout = FALSE,
                      !.rLog.info.duration = toPrecision3(t - q1.rLog.info.time),
                      !.rLog.info.status = TRUE]
              ELSE q1
    IN  taskCb([q2 EXCEPT !.finished = TRUE,
                          !.errAtFinish = (q.rLog # NoRecord /\ q.rLog.info.error),
                          !.timerAtFinish = q.timer,
                          !.finishTime = t], FALSE)

\* A getNextId callback that stores the id and never calls cb.
getNextIdNoCb(q, err, id, twice) ==
    LET q0 == [q EXCEPT !.incr = IF err THEN "err" ELSE "ok"]
    IN  IF q0.rLog = NoRecord
        THEN [q0 EXCEPT !.threw = TRUE, !.typeError = TRUE]
        ELSE [q0 EXCEPT !.rLog.id = IF err THEN UndefinedId ELSE id]

\* The callback of getNextId (lines 241-256).  `err` is the INCR's error,
\* `id` its answer, `twice` whether this async version throws on the second
\* call of a task's cb.
getNextIdCb(q, err, id, twice) ==
    LET q0 == [q EXCEPT !.incr = IF err THEN "err" ELSE "ok"]
        q1 == IF err THEN taskCb(q0, TRUE) ELSE q0
    IN  IF q1.rLog = NoRecord
        THEN [q1 EXCEPT !.threw = TRUE, !.typeError = TRUE]
        ELSE LET q2 == [q1 EXCEPT !.rLog.id = IF err THEN UndefinedId ELSE id]
             IN  IF err /\ twice THEN [q2 EXCEPT !.threw = TRUE]
                 ELSE taskCb(q2, FALSE)

\* A middleware function that calls next() only from the async.parallel
\* callback.
newRequestNextLater(t) ==
    [ phase |-> "logged",
      nextCalls |-> 0,
      rLog |-> [id |-> NullId, type |-> NoType, writeTimeout |-> TRUE,
                info |-> [time |-> t, duration |-> NoDuration,
                          status |-> FALSE, error |-> FALSE]],
      currentType |-> NoType,
      timer |-> "armed",
      timerDue |-> t + WriteDelay,
      finished |-> FALSE,
      finishTime |-> 0,
      incr |-> "wait",
      completed |-> 0,
      parDone |-> FALSE,
      threw |-> FALSE,
      typeError |-> FALSE,
      earlyUpdate |-> FALSE,
      ignored |-> FALSE,
      errAtFinish |-> FALSE,
      timerAtFinish |-> "none",
      cmds |-> << [op |-> "incr", key |-> IdKey, ttl |-> 0, str |-> NoStr, by |-> "getNextId"] >> ]

\* The closure right after the middleware function has run for a logged
\* request at time t (lines 91-268).
newRequest(t) ==
    [ phase |-> "logged",
      nextCalls |-> 1,
      rLog |-> [id |-> NullId, type |-> NoType, writeTimeout |-> TRUE,
                info |-> [time |-> t, duration |-> NoDuration,
                          status |-> FALSE, error |-> FALSE]],
      currentType |-> NoType,
      timer |-> "armed",
      timerDue |-> t + WriteDelay,
      finished |-> FALSE,
      finishTime |-> 0,
      incr |-> "wait",
      completed |-> 0,
      parDone |-> FALSE,
      threw |-> FALSE,
      typeError |-> FALSE,
      earlyUpdate |-> FALSE,
      ignored |-> FALSE,
      errAtFinish |-> FALSE,
      timerAtFinish |-> "none",
      cmds |-> << [op |-> "incr", key |-> IdKey, ttl |-> 0, str |-> NoStr, by |-> "getNextId"] >> ]

\* A request the middleware has not seen yet, and one it passed through.
idleRequest == [newRequest(0) EXCEPT !.phase = "new", !.nextCalls = 0, !.rLog = NoRecord,
                                     !.timer = "none", !.incr = "none", !.cmds = << >>]
skippedRequest == [idleRequest EXCEPT !.phase = "skipped", !.nextCalls = 1]

\* redis executes the commands in the order they were issued.
RECURSIVE ApplyCmds(_, _)
ApplyCmds(ks, cs) ==
    IF cs = << >> THEN ks
    ELSE LET c == Head(cs)
             k1 == IF c.op = "del" THEN ks \ {c.key}
                   ELSE IF c.op = "setex" THEN ks \cup {c.key}
                   ELSE ks
         IN  ApplyCmds(k1, Tail(cs))

NewCmds(q, q2) == SubSeq(q2.cmds, Len(q.cmds) + 1, Len(q2.cmds))

\* ------------------------------------------------------------------ state
Init ==
    /\ options \in OptionChoices
    /\ now = 0
    /\ connectionLost = FALSE
    /\ cooldown = 0
    /\ counter = 0
    /\ keys = {}
    /\ req = [r \in Reqs |-> idleRequest]

\* One step of request r's closure from q to q2, with the store following.
Step(r, q2) ==
    /\ req' = [req EXCEPT ![r] = q2]
    /\ keys' = ApplyCmds(keys, NewCmds(req[r], q2))

\* The middleware function (lines 78-269) for a request with method m.
Arrive(r, m) ==
    /\ req[r].phase = "new"
    /\ IF connectionLost \/ m = "OPTIONS" \/ m = "HEAD"
       THEN Step(r, skippedRequest)
       ELSE Step(r, newRequest(now))
    /\ UNCHANGED <<options, now, connectionLost, cooldown, counter>>

\* A second passes; a due timer fires before the clock moves on.
Tick ==
    /\ now < MaxTime
    /\ \A r \in Reqs : req[r].timer = "armed" => now < req[r].timerDue
    /\ now' = now + 1
    /\ UNCHANGED <<options, connectionLost, cooldown, counter, keys, req>>

WriteTimeout(r) ==
    /\ req[r].timer = "armed"
    /\ now >= req[r].timerDue
    /\ Step(r, writeTimeoutFn(req[r]))
    /\ UNCHANGED <<options, now, connectionLost, cooldown, counter>>

\* A handler calls res.rLog.update() (README: guarded by res.rLog).
Update(r) ==
    /\ req[r].rLog # NoRecord
    /\ Len(req[r].cmds) < MaxCmds
    /\ Step(r, [update(req[r]) EXCEPT !.earlyUpdate = @ \/ req[r].rLog.writeTimeout])
    /\ UNCHANGED <<options, now, connectionLost, cooldown, counter>>

\* A handler calls res.rLog.ignore() (README: guarded by res.rLog).
Ignore(r) ==
    /\ req[r].rLog # NoRecord
    /\ Step(r, ignore(req[r]))
    /\ UNCHANGED <<options, now, connectionLost, cooldown, counter>>

\* A handler sets res.rLog.info.error (README: guarded by res.rLog).
SetError(r) ==
    /\ req[r].rLog # NoRecord
    /\ ~req[r].rLog.info.error
    /\ Step(r, [req[r] EXCEPT !.rLog.info.error = TRUE])
    /\ UNCHANGED <<options, now, connectionLost, cooldown, counter>>

\* The response emits 'finish'.
Finish(r) ==
    /\ req[r].phase = "logged"
    /\ ~req[r].finished
    /\ Step(r, finish(req[r], now))
    /\ UNCHANGED <<options, now, connectionLost, cooldown, counter>>

\* redis answers the INCR with the next id.
IncrOk(r) ==
    /\ req[r].incr = "wait"
    /\ counter' = counter + 1
    /\ Step(r, getNextIdCb(req[r], FALSE, counter + 1, FALSE))
    /\ UNCHANGED <<options, now, connectionLost, cooldown>>

\* The INCR fails; conn: with "Redis connection to ... failed - connect".
IncrErr(r, conn, twice) ==
    /\ req[r].incr = "wait"
    /\ connectionLost' = (conn \/ connectionLost)
    /\ cooldown' = IF conn THEN cooldown + 1 ELSE cooldown
    /\ Step(r, getNextIdCb(req[r], TRUE, UndefinedId, twice))
    /\ UNCHANGED <<options, now, counter>>

\* setTimeout(function() { connectionLost = false; }, 5 * 60000) fires.
CooldownExpire ==
    /\ cooldown > 0
    /\ cooldown' = cooldown - 1
    /\ connectionLost' = FALSE
    /\ UNCHANGED <<options, now, counter, keys, req>>

Next ==
    \/ \E r \in Solo, m \in Methods : Arrive(r, m)
    \/ Tick
    \/ \E r \in Solo : WriteTimeout(r)
    \/ \E r \in Solo : Update(r)
    \/ \E r \in Solo : Ignore(r)
    \/ \E r \in Solo : SetError(r)
    \/ \E r \in Solo : Finish(r)
    \/ \E r \in Solo : IncrOk(r)
    \/ \E r \in Solo, conn \in BOOLEAN, twice \in BOOLEAN : IncrErr(r, conn, twice)
    \/ CooldownExpire

Spec == Init /\ [][Next]_vars

\* Two requests in flight together under the default options, within the
\* same second: every interleaving of their arrivals, update(), ignore(),
\* completions and id answers, short of the delayed write.
NextConcurrent ==
    \/ \E r \in Reqs, m \in Methods : Arrive(r, m)
    \/ \E r \in Reqs : Update(r)
    \/ \E r \in Reqs : Ignore(r)
    \/ \E r \in Reqs : Finish(r)
    \/ \E r \in Reqs : IncrOk(r)
    \/ \E r \in Reqs, conn \in BOOLEAN, twice \in BOOLEAN : IncrErr(r, conn, twice)
    \/ CooldownExpire

InitConcurrent == Init /\ ~options.hasSlowTime /\ ~options.hasLogTypes
SpecConcurrent == InitConcurrent /\ [][NextConcurrent]_vars

\* ------------------------------------------------------- claim vocabulary
Idx(q) == 1 .. Len(q.cmds)
\* The record writes (SETEX) and deletes (DEL) a request has issued.
Writes(q) == {i \in Idx(q) : q.cmds[i].op = "setex"}
Dels(q) == {i \in Idx(q) : q.cmds[i].op = "del"}
WritesUnder(q, type) == {i \in Writes(q) : q.cmds[i].key[1] = type}
\* The write of the async.parallel callback: the completion write.
FinalWrites(q) == {i \in Writes(q) : q.cmds[i].by = "parallel"}
\* The slow threshold in force.
SlowTime == IF options.hasSlowTime THEN options.slowTime ELSE defaultSlowTime
\* When the request entered the middleware, and how long it took.
StartTime(q) == q.timerDue - WriteDelay
Took(q) == q.finishTime - StartTime(q)
\* The keys in the store that request q wrote.
OwnKeys(q) == {k \in keys : \E i \in Writes(q) : q.cmds[i].key = k}

TypeOK ==
    /\ options \in OptionChoices
    /\ now \in 0 .. MaxTime
    /\ connectionLost \in BOOLEAN
    /\ cooldown \in 0 .. Cardinality(Reqs)
    /\ counter \in 0 .. Cardinality(Reqs)
    /\ \A r \in Reqs :
         /\ req[r].phase \in {"new", "skipped", "logged"}
         /\ req[r].timer \in {"none", "armed", "fired", "cleared"}
         /\ req[r].incr \in {"none", "wait", "ok", "err"}
         /\ req[r].completed \in 0 .. 2
         /\ req[r].currentType \in Types \cup {NoType}
         /\ req[r].rLog # NoRecord => req[r].rLog.type \in Types \cup {NoType}

\* ----------------------------------------------------------------- claims

\* C1: at completion, a record without error whose duration exceeds a
\* nonzero slowTime is written by the completion write under 's'.
C1_SlowAtCompletion ==
    \A r \in Reqs : \A i \in FinalWrites(req[r]) :
        (~req[r].errAtFinish /\ SlowTime # 0 /\ Took(req[r]) > SlowTime)
            => req[r].cmds[i].key[1] = "s"

\* C2: a response that completed before the delayed write fired never gets a
\* write under 'p', whatever follows.
C2_NoPendingAfterEarlyFinish ==
    \A r \in Reqs :
        (req[r].finished /\ req[r].timerAtFinish # "fired")
            => /\ WritesUnder(req[r], "p") = {}
               /\ req[r].timer # "fired"

C2_Witness ==
    \E r \in Reqs :
        /\ req[r].finished /\ req[r].timerAtFinish = "armed"
        /\ now >= req[r].timerDue
        /\ FinalWrites(req[r]) # {}
        /\ \E i \in Writes(req[r]) : req[r].cmds[i].by = "update"

\* C3: once ignore() has been called with no record write issued so far, no
\* record write and no delete is issued in any later step.
C3_IgnoreBeforeWrite ==
    [][\A r \in Reqs :
          (req'[r].ignored /\ Writes(req[r]) = {})
              => (Writes(req'[r]) = {} /\ Dels(req'[r]) = {})]_vars

C3_Witness ==
    \E r \in Reqs :
        /\ req[r].ignored /\ req[r].finished /\ req[r].incr # "wait"
        /\ req[r].timerAtFinish = "cleared"
        /\ Writes(req[r]) = {}

\* C4: two entries written by the same request are never in the store
\* together.
C4_OneEntryPerRecord ==
    \A r \in Reqs : Cardinality(OwnKeys(req[r])) <= 1

\* C5: once the INCR of a request has failed, no record write is issued for
\* that request.
C5_NoWriteAfterIdFailure ==
    [][\A r \in Reqs :
          req'[r].incr = "err" => Writes(req'[r]) = Writes(req[r])]_vars

\* C6: the type of a record never goes from a terminal type to pending or to
\* another terminal type.
C6_TypeOnlyForward ==
    [][\A r \in Reqs :
          (req[r].rLog # NoRecord /\ req'[r].rLog # NoRecord
           /\ req[r].rLog.type \in {"c", "s", "e"})
              => req'[r].rLog.type = req[r].rLog.type]_vars

\* C7: every delete is followed at once by the write of another key, deletes
\* a key the request wrote before, and after the completion write its key is
\* the only key of the request in the store.
C7_DeleteOldKeyFirst ==
    \A r \in Reqs :
        /\ \A i \in Dels(req[r]) :
              /\ i + 1 \in Writes(req[r])
              /\ req[r].cmds[i + 1].key # req[r].cmds[i].key
              /\ \E j \in Writes(req[r]) : j < i /\ req[r].cmds[j].key = req[r].cmds[i].key
        /\ \A i \in FinalWrites(req[r]) :
              i = Len(req[r].cmds) => OwnKeys(req[r]) = {req[r].cmds[i].key}

\* C8: when the delayed write fires for a record whose predicate admits 'p',
\* exactly one write under 'p' is issued over the request's life; a response
\* that took longer than the window and was not ignored had it fire.
C8_ExactlyOnePending ==
    \A r \in Reqs :
        /\ Cardinality(WritesUnder(req[r], "p")) <= 1
        /\ (req[r].timer = "fired" /\ "p" \in (IF options.hasLogTypes THEN options.logTypes ELSE Types))
              => Cardinality(WritesUnder(req[r], "p")) = 1
        /\ (req[r].finished /\ Took(req[r]) > WriteDelay /\ ~req[r].ignored)
              => req[r].timer = "fired"

C8_Witness ==
    \E r \in Reqs :
        /\ req[r].finished /\ Took(req[r]) > WriteDelay /\ ~req[r].ignored
        /\ Cardinality(WritesUnder(req[r], "p")) = 1
        /\ Cardinality({i \in Writes(req[r]) : req[r].cmds[i].by = "update"}) >= 2

\* C9: at the step in which the later of the completion event and the id
\* answer arrives, for a record still present that passes the predicate, the
\* completion write is issued under the record's type; every completion
\* write carries the duration and the status.
C9_Joined(q) == q.finished /\ q.incr = "ok"
C9_FinalWriteIssued ==
    /\ [](\A r \in Reqs : \A i \in FinalWrites(req[r]) :
             /\ req[r].cmds[i].str.duration # NoDuration
             /\ req[r].cmds[i].str.status
             /\ req[r].cmds[i].key[1] \in {"c", "s", "e"})
    /\ [][\A r \in Reqs :
            (/\ ~C9_Joined(req[r]) /\ C9_Joined(req'[r])
             /\ req'[r].rLog # NoRecord /\ mustLog(req'[r].rLog))
               => /\ FinalWrites(req'[r]) = {Len(req'[r].cmds)}
                  /\ req'[r].cmds[Len(req'[r].cmds)].key[1] = req'[r].rLog.type]_vars

C9_Witness ==
    \E r \in Reqs :
        /\ req[r].finished /\ req[r].incr = "ok" /\ ~req[r].ignored
        /\ req[r].timerAtFinish = "fired"
        /\ FinalWrites(req[r]) # {}
        /\ req[r].cmds[1].op = "incr"
        /\ \E i \in Writes(req[r]) : req[r].cmds[i].key[2] = NullId

\* C10: a record whose info.error is set at completion is classified 'e' and
\* its completion write is under 'e', whatever the duration and slowTime.
C10_ErrorAtCompletion ==
    \A r \in Reqs :
        req[r].errAtFinish =>
            /\ req[r].rLog # NoRecord => req[r].rLog.type = "e"
            /\ \A i \in FinalWrites(req[r]) : req[r].cmds[i].key[1] = "e"

C10_Witness ==
    \E r \in Reqs :
        /\ req[r].errAtFinish
        /\ SlowTime # 0 /\ Took(req[r]) > SlowTime
        /\ \E i \in FinalWrites(req[r]) : req[r].cmds[i].key[1] = "e"

\* C11: update() called while the delayed write is scheduled issues no
\* command and leaves the record, the last written type and the timer as they
\* were; nothing is written while the write is scheduled, and when it fires
\* it writes under 'p'.
C11_UpdateWhileScheduled ==
    /\ [][\A r \in Reqs :
            (Update(r) /\ req[r].rLog.writeTimeout)
               => /\ req'[r] = [req[r] EXCEPT !.earlyUpdate = TRUE]
                  /\ keys' = keys]_vars
    /\ [](\A r \in Reqs :
            /\ req[r].timer = "armed" => Writes(req[r]) = {}
            /\ \A i \in Writes(req[r]) :
                  req[r].cmds[i].by = "timeout" => req[r].cmds[i].key[1] = "p")

C11_Witness ==
    \E r \in Reqs :
        /\ req[r].earlyUpdate /\ req[r].errAtFinish
        /\ req[r].timerAtFinish = "fired"
        /\ \E i \in Writes(req[r]) :
              /\ req[r].cmds[i].by = "timeout" /\ req[r].cmds[i].str.error
              /\ req[r].cmds[i].key[1] = "p"
        /\ \E i \in FinalWrites(req[r]) : req[r].cmds[i].key[1] = "e"
        /\ \E k \in keys : k[1] = "e"
        /\ ~\E k \in keys : k[1] = "p"

\* C12: ignore() called after a write issues no command, in that step or in
\* any later one, and the key written last stays in the store.
C12_LastKey(q) == q.cmds[CHOOSE i \in Writes(q) : \A j \in Writes(q) : j <= i].key
C12_IgnoreAfterWrite ==
    /\ [][\A r \in Reqs :
            (req'[r].ignored /\ Writes(req[r]) # {}) => req'[r].cmds = req[r].cmds]_vars
    /\ [](\A r \in Solo :
            (req[r].ignored /\ Writes(req[r]) # {}) => C12_LastKey(req[r]) \in keys)

C12_Witness ==
    \E r \in Reqs :
        /\ req[r].ignored /\ Writes(req[r]) # {}
        /\ req[r].finished /\ req[r].incr = "ok"
        /\ req[r].timerAtFinish = "fired" /\ FinalWrites(req[r]) = {}
        /\ C12_LastKey(req[r]) \in keys

\* C13: every request the middleware has run for was handed to next()
\* exactly once, in the arrival step itself, whatever the INCR does later;
\* OPTIONS and HEAD requests and requests arriving while connectionLost is
\* set get no record, no timer and no store command.
C13_NextExactlyOnce ==
    /\ [](\A r \in Reqs :
            /\ req[r].nextCalls = (IF req[r].phase = "new" THEN 0 ELSE 1)
            /\ req[r].phase = "skipped"
                  => (req[r].cmds = << >> /\ req[r].rLog = NoRecord /\ req[r].timer = "none"))
    /\ [][\A r \in Reqs :
            /\ (Arrive(r, "OPTIONS") \/ Arrive(r, "HEAD")) => req'[r].phase = "skipped"
            /\ (connectionLost /\ Arrive(r, "GET")) => req'[r].phase = "skipped"
            /\ (~connectionLost /\ Arrive(r, "GET"))
                  => (req'[r].phase = "logged" /\ req'[r].incr = "wait" /\ req'[r].nextCalls = 1)]_vars

C13_Witness ==
    \E r \in Reqs, o \in Reqs :
        /\ connectionLost
        /\ req[r].phase = "logged" /\ req[r].incr = "err" /\ req[r].nextCalls = 1
        /\ req[o].phase = "skipped" /\ req[o].nextCalls = 1

\* C14: with logTypes configured every record write is under a type of
\* logTypes, and a completion that classifies the record under a type outside
\* logTypes discards the record and issues no command.
C14_PredicateFilters ==
    /\ [](\A r \in Reqs : \A i \in Writes(req[r]) :
            options.hasLogTypes => req[r].cmds[i].key[1] \in options.logTypes)
    /\ [][\A r \in Reqs :
            (/\ Finish(r) /\ req[r].rLog # NoRecord /\ options.hasLogTypes
             /\ setLogTypeRec(req[r].rLog).type \notin options.logTypes)
               => (req'[r].rLog = NoRecord /\ req'[r].cmds = req[r].cmds)]_vars

C14_Witness ==
    \E r \in Reqs :
        /\ options.hasLogTypes /\ options.logTypes = {"p", "e"}
        /\ req[r].finished /\ req[r].timerAtFinish = "fired" /\ ~req[r].errAtFinish
        /\ req[r].incr = "ok" /\ req[r].ignored
        /\ WritesUnder(req[r], "p") # {} /\ FinalWrites(req[r]) = {}

\* C15: a connection-level INCR failure sets connectionLost, and while it is
\* set no request issues a store command: arrivals get no record and requests
\* in flight write nothing.
C15_BreakerSilencesStore ==
    /\ [][\A r \in Reqs, twice \in BOOLEAN :
            IncrErr(r, TRUE, twice) => connectionLost']_vars
    /\ [][connectionLost => \A r \in Reqs : req'[r].cmds = req[r].cmds]_vars

\* C16: no callback of the recorder dereferences the record after it was
\* discarded.
C16_NoFailureOnDiscarded ==
    \A r \in Reqs : ~req[r].typeError

\* C17: every key a request writes or deletes carries an id the store
\* assigned, never the unset id (null) or the id of a failed INCR (undefined).
C17_KeysCarryAssignedId ==
    \A r \in Reqs : \A i \in Writes(req[r]) \cup Dels(req[r]) :
        req[r].cmds[i].key[2] \in 1 .. counter

\* C18: two distinct requests never write the same key.
C18_WrittenKeys(q) == {q.cmds[i].key : i \in Writes(q)}
C18_DistinctKeys ==
    \A r \in Reqs, o \in Reqs :
        r # o => C18_WrittenKeys(req[r]) \cap C18_WrittenKeys(req[o]) = {}

\* C19: before the response has completed no write under a terminal type is
\* issued.
C19_TerminalOnlyAtCompletion ==
    \A r \in Reqs :
        ~req[r].finished => \A i \in Writes(req[r]) : req[r].cmds[i].key[1] = "p"

====
